---- MODULE Spec2Model ----
(***************************************************************************)
(* Model of the message-board program in src/src/lib.rs: one instruction,  *)
(* CreateBoard, processed by process_instruction -> unpack -> create_board.*)
(* Bytes are naturals 0..255, a Pubkey is a sequence of 32 bytes, a String *)
(* is the sequence of its UTF-8 bytes.  The host runtime (account loading, *)
(* cross-program invocation of the system program, commit or rollback of   *)
(* the instruction) is modelled at the interface the program uses: the     *)
(* system program's create_account needs both accounts to have signed,     *)
(* refuses an account already in use and needs the payer's funds; the host *)
(* stores the accounts of an instruction only when it returned Ok.         *)
(* next_account_info is taken to be solana_program's (the file calls it    *)
(* without importing it).                                                  *)
(***************************************************************************)
EXTENDS Integers, Sequences, FiniteSets, TLC

VARIABLES
    ledger,       \* persisted accounts: name -> [lamports, owner, data]
    snapshot,     \* the ledger as it was when the current/last invocation began
    accounts,     \* the AccountInfo slice handed to process_instruction
    instruction_data, \* the payload handed to process_instruction
    pc,           \* position inside the invocation
    instruction,  \* the decoded MessageBoardInstruction
    token_account_data, \* the decoded TokenAccount
    rent,         \* the Rent decoded from the rent sysvar account
    create_account_ix,  \* the arguments of system_instruction::create_account
    result,       \* the ProgramResult of the invocation
    trace         \* the stages executed so far in this invocation (history)

vars == << ledger, snapshot, accounts, instruction_data, pc,
           instruction, token_account_data, rent, create_account_ix, result, trace >>

----------------------------------------------------------------------------
(* Sizes fixed by the program and the libraries it calls.                  *)

\* Pubkey is [u8; 32]; unpack slices rest[..32].
PUBKEY_BYTES == 32

\* create_board takes six accounts with next_account_info.
NUM_ACCOUNTS == 6

\* std::mem::size_of::<MessageBoardInfo>() on a 64-bit target:
\* bool (1) + Pubkey (32) + Pubkey (32) + String (24), rounded up to align 8.
SIZE_OF_MessageBoardInfo == 96

\* spl_token::state::Account::LEN, the packed length TokenAccount::unpack requires.
TOKEN_ACCOUNT_LEN == 165

\* Rent: the per-account overhead minimum_balance adds, the default
\* lamports_per_byte_year and burn_percent, and the length of a serialized Rent
\* (u64 + f64 + u8) that Rent::from_account_info decodes.
ACCOUNT_STORAGE_OVERHEAD == 128
LAMPORTS_PER_BYTE_YEAR == 3480
BURN_PERCENT == 50
RENT_LEN == 17

----------------------------------------------------------------------------
(* Bounds of the model.                                                    *)

\* The longest url the model feeds in (bytes).
MaxUrlLen == 29

----------------------------------------------------------------------------
(* Byte-level helpers.                                                     *)

Byte == 0..255

Repeat(b, n) == [i \in 1..n |-> b]

Key(b) == Repeat(b, PUBKEY_BYTES)

\* u32 little-endian, as borsh writes a String's length.
LE32(n) == << n % 256, (n \div 256) % 256, (n \div 65536) % 256, (n \div 16777216) % 256 >>

RECURSIVE ToLE(_, _)
\* the k little-endian bytes of n (u64::to_le_bytes with k = 8)
ToLE(n, k) == IF k = 0 THEN << >> ELSE << n % 256 >> \o ToLE(n \div 256, k - 1)

RECURSIVE Pow2(_)
Pow2(k) == IF k = 0 THEN 1 ELSE 2 * Pow2(k - 1)

RECURSIVE FromLE(_)
\* little-endian bytes to a number (u64::from_le_bytes, u32::from_le_bytes)
FromLE(bytes) ==
    IF bytes = << >> THEN 0 ELSE Head(bytes) + 256 * FromLE(Tail(bytes))

IsCont(b) == b >= 128 /\ b <= 191

RECURSIVE Utf8From(_, _)
\* core::str::from_utf8 validation of s from index i on
Utf8From(s, i) ==
    IF i > Len(s) THEN TRUE
    ELSE LET b == s[i]
             n == Len(s)
         IN  IF b < 128 THEN Utf8From(s, i + 1)
             ELSE IF b >= 194 /\ b <= 223
                  THEN i + 1 <= n /\ IsCont(s[i + 1]) /\ Utf8From(s, i + 2)
             ELSE IF b >= 224 /\ b <= 239
                  THEN /\ i + 2 <= n
                       /\ CASE b = 224 -> s[i + 1] >= 160 /\ s[i + 1] <= 191
                            [] b = 237 -> s[i + 1] >= 128 /\ s[i + 1] <= 159
                            [] OTHER   -> IsCont(s[i + 1])
                       /\ IsCont(s[i + 2])
                       /\ Utf8From(s, i + 3)
             ELSE IF b >= 240 /\ b <= 244
                  THEN /\ i + 3 <= n
                       /\ CASE b = 240 -> s[i + 1] >= 144 /\ s[i + 1] <= 191
                            [] b = 244 -> s[i + 1] >= 128 /\ s[i + 1] <= 143
                            [] OTHER   -> IsCont(s[i + 1])
                       /\ IsCont(s[i + 2])
                       /\ IsCont(s[i + 3])
                       /\ Utf8From(s, i + 4)
             ELSE FALSE

\* String::from_utf8(bytes).is_ok()
ValidUtf8(s) == Utf8From(s, 1)

----------------------------------------------------------------------------
(* Well-known identifiers.                                                 *)

SystemProgramId == Key(0)
Alice           == Key(1)
Bob             == Key(2)
MintA           == Key(3)
MintB           == Key(4)
SplTokenId      == Key(5)
FakeProgramId   == Key(6)
RentSysvarId    == Key(7)
NotRentId       == Key(8)
ThisProgramId   == Key(9)
BoardKey        == Key(10)
HoldingKey      == Key(11)

Senders == {"alice", "bob"}

KeyOfName(n) == CASE n = "alice" -> Alice [] n = "bob" -> Bob [] OTHER -> BoardKey

----------------------------------------------------------------------------
(* MessageBoardInstruction::unpack, lines 53-62.                           *)

\* input.split_first(): None on an empty slice.
SplitFirst(input) ==
    IF input = << >> THEN [some |-> FALSE]
    ELSE [some |-> TRUE, variant |-> Head(input), rest |-> Tail(input)]

\* The decoder's three outcomes: a value, an error value, or a panic when
\* rest[..32] is sliced out of a rest shorter than 32 bytes.
unpack(input) ==
    LET sf == SplitFirst(input)
    IN  IF ~sf.some THEN [tag |-> "Err", err |-> "InvalidInstructionData"]
        ELSE IF sf.variant = 0
             THEN IF Len(sf.rest) < PUBKEY_BYTES
                  THEN [tag |-> "Panic"]
                  ELSE LET token == SubSeq(sf.rest, 1, PUBKEY_BYTES)
                           tail  == SubSeq(sf.rest, PUBKEY_BYTES + 1, Len(sf.rest))
                       IN  IF ValidUtf8(tail)
                           THEN [tag |-> "Ok", token |-> token, url |-> tail]
                           ELSE [tag |-> "Err", err |-> "InvalidInstructionData"]
             ELSE [tag |-> "Err", err |-> "InvalidInstructionData"]

----------------------------------------------------------------------------
(* spl_token::state::Account, as TokenAccount::unpack reads it (line 88).  *)

\* Pack::pack_into_slice: mint, owner, amount (u64 LE), delegate (COption),
\* state, is_native (COption), delegated_amount, close_authority (COption).
PackTokenAccount(mint, owner, amount, state) ==
    mint \o owner
         \o ToLE(amount, 8)
         \o Repeat(0, 36) \o << state >> \o Repeat(0, 12) \o Repeat(0, 8) \o Repeat(0, 36)

\* A COption tag is [0,0,0,0] (None) or [1,0,0,0] (Some); anything else is rejected.
COptionTagOk(d, at) ==
    d[at] \in {0, 1} /\ d[at + 1] = 0 /\ d[at + 2] = 0 /\ d[at + 3] = 0

\* Pack::unpack: length check, field decode, then the is_initialized check.
UnpackTokenAccount(d) ==
    IF Len(d) # TOKEN_ACCOUNT_LEN THEN [tag |-> "Err", err |-> "InvalidAccountData"]
    ELSE IF ~(COptionTagOk(d, 73) /\ COptionTagOk(d, 110) /\ COptionTagOk(d, 130))
         THEN [tag |-> "Err", err |-> "InvalidAccountData"]
    ELSE IF d[109] \notin {0, 1, 2} THEN [tag |-> "Err", err |-> "InvalidAccountData"]
    ELSE IF d[109] = 0 THEN [tag |-> "Err", err |-> "UninitializedAccount"]
    ELSE [tag |-> "Ok",
          mint   |-> SubSeq(d, 1, 32),
          owner  |-> SubSeq(d, 33, 64),
          amount |-> FromLE(SubSeq(d, 65, 72))]

----------------------------------------------------------------------------
(* MessageBoardInfo and its borsh encoding, lines 16-22 and 115-122.       *)

\* A mutant of BorshSerialize: the String is written without its length prefix.
BorshSerializeNoLength(info) ==
    << IF info.is_initialized THEN 1 ELSE 0 >> \o info.owner \o info.token \o info.url

\* BorshSerialize: bool as one byte, each Pubkey as 32 bytes, the String as a
\* u32 little-endian length followed by its bytes.
BorshSerialize(info) ==
    << IF info.is_initialized THEN 1 ELSE 0 >>
        \o info.owner \o info.token \o LE32(Len(info.url)) \o info.url

\* BorshDeserialize from the front of a buffer (trailing bytes are left).
BorshDeserialize(buf) ==
    LET fixed == 1 + 2 * PUBKEY_BYTES + 4
    IN  IF Len(buf) < fixed \/ buf[1] \notin {0, 1} THEN [tag |-> "Err"]
        ELSE LET n == FromLE(SubSeq(buf, 2 * PUBKEY_BYTES + 2, fixed))
             IN  IF Len(buf) < fixed + n THEN [tag |-> "Err"]
                 ELSE LET url == SubSeq(buf, fixed + 1, fixed + n)
                      IN  IF ~ValidUtf8(url) THEN [tag |-> "Err"]
                          ELSE [tag |-> "Ok",
                                info |-> [is_initialized |-> buf[1] = 1,
                                          owner |-> SubSeq(buf, 2, PUBKEY_BYTES + 1),
                                          token |-> SubSeq(buf, PUBKEY_BYTES + 2, 2 * PUBKEY_BYTES + 1),
                                          url   |-> url]]

\* A mutant of SerializeInto: an overflowing write is silently truncated.
SerializeIntoTruncating(buf, bytes) ==
    IF Len(bytes) <= Len(buf)
    THEN [ok |-> TRUE, buf |-> bytes \o SubSeq(buf, Len(bytes) + 1, Len(buf))]
    ELSE [ok |-> TRUE, buf |-> SubSeq(bytes, 1, Len(buf))]

\* info.serialize(&mut &mut data[..]): write_all into a fixed slice copies what
\* fits and fails (WriteZero) when the slice is exhausted.
SerializeInto(buf, bytes) ==
    IF Len(bytes) <= Len(buf)
    THEN [ok |-> TRUE, buf |-> bytes \o SubSeq(buf, Len(bytes) + 1, Len(buf))]
    ELSE [ok |-> FALSE, buf |-> SubSeq(bytes, 1, Len(buf))]

----------------------------------------------------------------------------
(* Rent and the account-creation primitive, lines 94-112.                  *)

\* The little-endian bytes of the f64 values 2.0 (the default
\* exemption_threshold), 1.0 and 1.1.
F64_TWO == << 0, 0, 0, 0, 0, 0, 0, 64 >>
F64_ONE == << 0, 0, 0, 0, 0, 0, 240, 63 >>
F64_ONE_TENTH_MORE == << 154, 153, 153, 153, 153, 153, 241, 63 >>

\* The serialized Rent the host keeps in the rent sysvar account.
PackRent(lamports_per_byte_year, exemption_threshold, burn_percent) ==
    ToLE(lamports_per_byte_year, 8) \o exemption_threshold \o << burn_percent >>

\* An f64 from its little-endian bytes: sign, biased exponent (11 bits) and
\* the 52 fraction bits, kept as seven little-endian bytes.
F64(bytes) ==
    [negative |-> bytes[8] >= 128,
     exponent |-> (bytes[8] % 128) * 16 + bytes[7] \div 16,
     fraction |-> SubSeq(bytes, 1, 6) \o << bytes[7] % 16 >>]

\* Rent::from_account_info after its key check: bincode decodes the first 17
\* bytes of the account's data and fails on fewer.  lamports_per_byte_year
\* stays a u64 in its eight little-endian bytes.
UnpackRent(data) ==
    IF Len(data) < RENT_LEN THEN [tag |-> "Err", err |-> "InvalidArgument"]
    ELSE [tag |-> "Ok",
          lamports_per_byte_year |-> SubSeq(data, 1, 8),
          exemption_threshold    |-> F64(SubSeq(data, 9, 16)),
          burn_percent           |-> data[17]]

----------------------------------------------------------------------------
(* Whole numbers wider than the checker's integers: little-endian byte     *)
(* sequences (limbs) for products, little-endian bit sequences for         *)
(* rounding.  A u64 is eight limbs.                                        *)

U64_MAX == Repeat(255, 8)

U64_ZERO == Repeat(0, 8)

RECURSIVE AddL(_, _, _)
\* a + b + carry on limbs
AddL(a, b, carry) ==
    IF a = << >> /\ b = << >> THEN (IF carry = 0 THEN << >> ELSE << carry >>)
    ELSE LET x == IF a = << >> THEN 0 ELSE Head(a)
             y == IF b = << >> THEN 0 ELSE Head(b)
             t == x + y + carry
         IN  << t % 256 >> \o AddL(IF a = << >> THEN a ELSE Tail(a),
                                    IF b = << >> THEN b ELSE Tail(b), t \div 256)

RECURSIVE MulByte(_, _, _)
\* a * m + carry for one limb m
MulByte(a, m, carry) ==
    IF a = << >> THEN (IF carry = 0 THEN << >> ELSE << carry >>)
    ELSE LET t == Head(a) * m + carry
         IN  << t % 256 >> \o MulByte(Tail(a), m, t \div 256)

RECURSIVE MulL(_, _)
\* a * b on limbs
MulL(a, b) ==
    IF b = << >> THEN << >>
    ELSE AddL(MulByte(a, Head(b), 0), << 0 >> \o MulL(a, Tail(b)), 0)

\* the low eight limbs, padded with zeros: a value as a u64 (wrapping)
AsU64(a) == [i \in 1..8 |-> IF i <= Len(a) THEN a[i] ELSE 0]

RECURSIVE LessL(_, _)
\* a < b for two limb sequences of one length
LessL(a, b) ==
    IF a = << >> THEN FALSE
    ELSE LET n == Len(a)
         IN  IF a[n] # b[n] THEN a[n] < b[n]
             ELSE LessL(SubSeq(a, 1, n - 1), SubSeq(b, 1, n - 1))

\* the bits of limbs, least significant first
BitsOf(a) == [i \in 1..(8 * Len(a)) |-> (a[(i - 1) \div 8 + 1] \div Pow2((i - 1) % 8)) % 2]

\* the limbs of bits
LimbsOf(bits) ==
    [j \in 1..((Len(bits) + 7) \div 8) |->
        LET bit(k) == IF 8 * (j - 1) + k <= Len(bits) THEN bits[8 * (j - 1) + k] ELSE 0
        IN  bit(1) + 2 * bit(2) + 4 * bit(3) + 8 * bit(4)
              + 16 * bit(5) + 32 * bit(6) + 64 * bit(7) + 128 * bit(8)]

RECURSIVE TrimBits(_)
\* without leading zeros
TrimBits(bits) ==
    IF bits = << >> \/ bits[Len(bits)] = 1 THEN bits
    ELSE TrimBits(SubSeq(bits, 1, Len(bits) - 1))

RECURSIVE IncBits(_)
\* bits + 1
IncBits(bits) ==
    IF bits = << >> THEN << 1 >>
    ELSE IF Head(bits) = 0 THEN << 1 >> \o Tail(bits)
    ELSE << 0 >> \o IncBits(Tail(bits))

\* A whole number rounded to the 53 significant bits of an f64, ties to even:
\* the kept bits and the count of bits dropped below them.
Round53(bits) ==
    LET b == TrimBits(bits)
        n == Len(b)
        d == n - 53
    IN  IF d <= 0 THEN [mant |-> b, shift |-> 0]
        ELSE LET kept   == SubSeq(b, d + 1, n)
                 sticky == \E i \in 1..(d - 1) : b[i] = 1
                 up     == b[d] = 1 /\ (sticky \/ kept[1] = 1)
             IN  [mant |-> IF up THEN IncBits(kept) ELSE kept, shift |-> d]

\* (x as f64 * t) as u64 for a u64 x: x is rounded to an f64, the product is
\* rounded to an f64, and the cast truncates toward zero and saturates at
\* the ends of u64 (NaN gives 0).
TimesF64(x, t) ==
    LET xr   == Round53(BitsOf(x))
        zero == xr.mant = << >>
        frac == \E i \in 1..7 : t.fraction[i] # 0
    IN  IF t.exponent = 2047
        THEN (IF frac \/ zero \/ t.negative THEN U64_ZERO ELSE U64_MAX)
        ELSE IF t.negative \/ t.exponent = 0 \/ zero THEN U64_ZERO
        ELSE LET m == SubSeq(t.fraction, 1, 6) \o << t.fraction[7] + 16 >>
                 p == Round53(BitsOf(MulL(LimbsOf(xr.mant), m)))
                 s == xr.shift + p.shift + t.exponent - 1075
                 n == Len(p.mant)
             IN  IF s >= 0
                 THEN (IF n + s > 64 THEN U64_MAX
                       ELSE AsU64(LimbsOf(Repeat(0, s) \o p.mant)))
                 ELSE (IF 0 - s >= n THEN U64_ZERO
                       ELSE AsU64(LimbsOf(SubSeq(p.mant, 1 - s, n))))

\* Rent::minimum_balance(data_len):
\* (((ACCOUNT_STORAGE_OVERHEAD + data_len as u64) * lamports_per_byte_year) as f64
\*     * exemption_threshold) as u64, the u64 product wrapping as in a release build.
\* The result is a u64 in its eight little-endian bytes.
minimum_balance(r, data_len) ==
    TimesF64(AsU64(MulL(ToLE(ACCOUNT_STORAGE_OVERHEAD + data_len, 8), r.lamports_per_byte_year)),
             r.exemption_threshold)

\* The Rent a cluster starts with.
DefaultRent == UnpackRent(PackRent(LAMPORTS_PER_BYTE_YEAR, F64_TWO, BURN_PERCENT))

\* A mutant of CreateAccountOutcome: the collision check is missing.
CreateAccountOutcomeNoCollision(from, to, lamports) ==
    IF ~from.is_signer \/ ~to.is_signer THEN "PrivilegeEscalation"
    ELSE IF LessL(ToLE(from.lamports, 8), lamports) THEN "InsufficientFunds"
    ELSE "Ok"

\* invoke_signed(create_account(from, to, lamports, space, owner), .., &[]): the
\* primitive needs both accounts to have signed, refuses an account that is
\* already in use, and needs the payer to hold the lamports (a u64 in bytes;
\* an account's balance is a number).
CreateAccountOutcome(from, to, lamports) ==
    IF ~from.is_signer \/ ~to.is_signer THEN "PrivilegeEscalation"
    ELSE IF to.lamports > 0 \/ to.data # << >> \/ to.owner # SystemProgramId
         THEN "AccountAlreadyInUse"
    ELSE IF LessL(ToLE(from.lamports, 8), lamports) THEN "InsufficientFunds"
    ELSE "Ok"

----------------------------------------------------------------------------
(* The checks of create_board, lines 79-91.                                *)

\* A mutant of SignerMissing: the signer check is gone.
SignerMissingNever(sender) == FALSE

\* if !sender.is_signer
SignerMissing(sender) == ~sender.is_signer

\* if token_account.owner != token_program.key
OwnerProgramMismatch(token_account, token_program) ==
    token_account.owner # token_program.key

\* A mutant of HoldingRejected: the balance is not looked at.
HoldingRejectedIgnoringAmount(holding, sender, token) ==
    holding.owner # sender.key \/ holding.mint # token

\* A mutant of HoldingRejected: the mint is not compared with the token.
HoldingRejectedIgnoringMint(holding, sender, token) ==
    holding.owner # sender.key \/ holding.amount = 0

\* if token_account_data.owner != *sender.key || .mint != token || .amount == 0
HoldingRejected(holding, sender, token) ==
    holding.owner # sender.key \/ holding.mint # token \/ holding.amount = 0

----------------------------------------------------------------------------
(* The order of the stages of one invocation, lines 34 and 72-122.         *)

StageOrder ==
    << "unpack", "accounts", "signer", "owner_program", "holding_unpack",
       "holding_check", "rent", "create", "write" >>

IndexOf(seq, x) == CHOOSE i \in 1..Len(seq) : seq[i] = x

\* A mutant of After: the signer check and the owner-program check trade places.
AfterSwapped(stage) ==
    CASE stage = "accounts"      -> "owner_program"
      [] stage = "owner_program" -> "signer"
      [] stage = "signer"        -> "holding_unpack"
      [] stage = "write"         -> "returned"
      [] OTHER                   -> StageOrder[IndexOf(StageOrder, stage) + 1]

\* The stage that follows a stage that passed.
After(stage) ==
    IF stage = "write" THEN "returned"
    ELSE StageOrder[IndexOf(StageOrder, stage) + 1]

----------------------------------------------------------------------------
(* What callers send.                                                      *)

\* The longest url whose record fits the provisioned buffer.
FitLen == SIZE_OF_MessageBoardInfo - (1 + 2 * PUBKEY_BYTES + 4)

UrlLens == {0, FitLen, FitLen + 1, MaxUrlLen}

Urls ==
    { Repeat(97, n) : n \in UrlLens }
        \cup { << 195, 169 >>, << 255 >>, << 104, 195 >> }

Payloads ==
    { << >> }
        \cup { << t >> \o SubSeq(MintA, 1, n) : t \in {0, 1}, n \in {0, PUBKEY_BYTES - 1} }
        \cup { << 1 >> \o MintA }
        \cup { << 0 >> \o MintA \o u : u \in Urls }

HoldingDatas ==
    { PackTokenAccount(MintA, Alice, 1, 1),
      PackTokenAccount(MintA, Alice, 256, 1),
      PackTokenAccount(MintA, Alice, 0, 1),
      PackTokenAccount(MintB, Alice, 1, 1),
      PackTokenAccount(MintA, Bob, 1, 1),
      PackTokenAccount(MintA, Alice, 1, 0),
      SubSeq(PackTokenAccount(MintA, Alice, 1, 1), 1, TOKEN_ACCOUNT_LEN - 1) }

\* The account passed in the rent position: the sysvar with the default Rent,
\* with another Rent, with data too short to decode, or another account.
RentAccounts ==
    { [key |-> RentSysvarId, data |-> PackRent(LAMPORTS_PER_BYTE_YEAR, F64_TWO, BURN_PERCENT)],
      [key |-> RentSysvarId, data |-> PackRent(1000, F64_ONE_TENTH_MORE, BURN_PERCENT)],
      [key |-> RentSysvarId, data |-> << >>],
      [key |-> RentSysvarId,
       data |-> SubSeq(PackRent(LAMPORTS_PER_BYTE_YEAR, F64_TWO, BURN_PERCENT), 1, RENT_LEN - 1)],
      [key |-> NotRentId, data |-> PackRent(LAMPORTS_PER_BYTE_YEAR, F64_TWO, BURN_PERCENT)] }

None == [tag |-> "None"]

----------------------------------------------------------------------------
(* State machine.                                                          *)

Init ==
    /\ ledger = [n \in Senders \cup {"board"} |->
                    [lamports |-> CASE n = "alice" -> 2 * FromLE(minimum_balance(DefaultRent, SIZE_OF_MessageBoardInfo))
                                    [] n = "bob"   -> FromLE(minimum_balance(DefaultRent, SIZE_OF_MessageBoardInfo)) - 1
                                    [] OTHER       -> 0,
                     owner |-> SystemProgramId,
                     data  |-> << >>]]
    /\ snapshot = ledger
    /\ accounts = << >>
    /\ instruction_data = << >>
    /\ pc = "idle"
    /\ instruction = None
    /\ token_account_data = None
    /\ rent = None
    /\ create_account_ix = None
    /\ result = "None"
    /\ trace = << >>

\* The AccountInfo the host builds for a ledger account.
LoadAccount(name, is_signer) ==
    [key |-> KeyOfName(name), is_signer |-> is_signer, owner |-> ledger[name].owner,
     lamports |-> ledger[name].lamports, data |-> ledger[name].data]

\* An AccountInfo of an account the program only reads.
ReadOnlyAccount(key, owner, data) ==
    [key |-> key, is_signer |-> FALSE, owner |-> owner, lamports |-> 1, data |-> data]

\* The host calls the entrypoint with a payload and a list of accounts.
Begin ==
    /\ pc = "idle"
    /\ \E data \in Payloads, s \in Senders, ss \in BOOLEAN, bs \in BOOLEAN,
          tao \in {SplTokenId, FakeProgramId}, tad \in HoldingDatas,
          tpk \in {SplTokenId, FakeProgramId}, ra \in RentAccounts,
          n \in {NUM_ACCOUNTS - 1, NUM_ACCOUNTS} :
            /\ instruction_data' = data
            /\ accounts' = SubSeq(<< LoadAccount(s, ss),
                                     LoadAccount("board", bs),
                                     ReadOnlyAccount(HoldingKey, tao, tad),
                                     ReadOnlyAccount(tpk, SystemProgramId, << >>),
                                     ReadOnlyAccount(SystemProgramId, SystemProgramId, << >>),
                                     ReadOnlyAccount(ra.key, SystemProgramId, ra.data) >>, 1, n)
    /\ snapshot' = ledger
    /\ pc' = "unpack"
    /\ instruction' = None
    /\ token_account_data' = None
    /\ rent' = None
    /\ create_account_ix' = None
    /\ result' = "Running"
    /\ trace' = << >>
    /\ UNCHANGED ledger

\* A stage ends the invocation with an error (a `return Err(..)` or a `?`).
Fail(err) == result' = err /\ pc' = "returned"

\* A stage passed: control goes on to the next one.
Pass(stage) == pc' = After(stage) /\ UNCHANGED result

\* let instruction = MessageBoardInstruction::unpack(instruction_data)?;
Unpack ==
    /\ pc = "unpack"
    /\ trace' = Append(trace, "unpack")
    /\ LET r == unpack(instruction_data)
       IN  CASE r.tag = "Ok"    -> instruction' = r /\ Pass("unpack")
             [] r.tag = "Err"   -> Fail(r.err) /\ UNCHANGED instruction
             [] r.tag = "Panic" -> Fail("Panic") /\ UNCHANGED instruction
    /\ UNCHANGED << ledger, snapshot, accounts, instruction_data,
                    token_account_data, rent, create_account_ix >>

\* six times next_account_info(account_info_iter)?
NextAccountInfos ==
    /\ pc = "accounts"
    /\ trace' = Append(trace, "accounts")
    /\ IF Len(accounts) < NUM_ACCOUNTS THEN Fail("NotEnoughAccountKeys") ELSE Pass("accounts")
    /\ UNCHANGED << ledger, snapshot, accounts, instruction_data, instruction,
                    token_account_data, rent, create_account_ix >>

\* if !sender.is_signer { return Err(MissingRequiredSignature) }
CheckSigner ==
    /\ pc = "signer"
    /\ trace' = Append(trace, "signer")
    /\ IF SignerMissing(accounts[1]) THEN Fail("MissingRequiredSignature") ELSE Pass("signer")
    /\ UNCHANGED << ledger, snapshot, accounts, instruction_data, instruction,
                    token_account_data, rent, create_account_ix >>

\* if token_account.owner != token_program.key { return Err(IncorrectProgramId) }
CheckOwnerProgram ==
    /\ pc = "owner_program"
    /\ trace' = Append(trace, "owner_program")
    /\ IF OwnerProgramMismatch(accounts[3], accounts[4])
       THEN Fail("IncorrectProgramId") ELSE Pass("owner_program")
    /\ UNCHANGED << ledger, snapshot, accounts, instruction_data, instruction,
                    token_account_data, rent, create_account_ix >>

\* let token_account_data = TokenAccount::unpack(&token_account.data.borrow())?;
UnpackHolding ==
    /\ pc = "holding_unpack"
    /\ trace' = Append(trace, "holding_unpack")
    /\ LET r == UnpackTokenAccount(accounts[3].data)
       IN  IF r.tag = "Ok"
           THEN token_account_data' = r /\ Pass("holding_unpack")
           ELSE Fail(r.err) /\ UNCHANGED token_account_data
    /\ UNCHANGED << ledger, snapshot, accounts, instruction_data, instruction,
                    rent, create_account_ix >>

\* the owner / mint / amount check
CheckHolding ==
    /\ pc = "holding_check"
    /\ trace' = Append(trace, "holding_check")
    /\ IF HoldingRejected(token_account_data, accounts[1], instruction.token)
       THEN Fail("InvalidAccountData") ELSE Pass("holding_check")
    /\ UNCHANGED << ledger, snapshot, accounts, instruction_data, instruction,
                    token_account_data, rent, create_account_ix >>

\* let rent = Rent::from_account_info(rent_sysvar_account)?;
LoadRent ==
    /\ pc = "rent"
    /\ trace' = Append(trace, "rent")
    /\ LET r == UnpackRent(accounts[6].data)
       IN  IF accounts[6].key # RentSysvarId THEN Fail("InvalidArgument") /\ UNCHANGED rent
           ELSE IF r.tag = "Ok" THEN rent' = r /\ Pass("rent")
           ELSE Fail(r.err) /\ UNCHANGED rent
    /\ UNCHANGED << ledger, snapshot, accounts, instruction_data, instruction,
                    token_account_data, create_account_ix >>

\* space, lamports, create_account_ix and invoke_signed(..)?
CreateAccount ==
    /\ pc = "create"
    /\ trace' = Append(trace, "create")
    /\ LET space    == SIZE_OF_MessageBoardInfo
           lamports == minimum_balance(rent, space)
           outcome  == CreateAccountOutcome(accounts[1], accounts[2], lamports)
       IN  /\ create_account_ix' = [tag |-> "CreateAccount", from |-> accounts[1].key,
                                     to |-> accounts[2].key, lamports |-> lamports,
                                     space |-> space, owner |-> ThisProgramId]
           /\ IF outcome = "Ok"
              THEN /\ accounts' = [accounts EXCEPT
                                     ![1].lamports = @ - FromLE(lamports),
                                     ![2].lamports = FromLE(lamports),
                                     ![2].owner = ThisProgramId,
                                     ![2].data = Repeat(0, space)]
                   /\ Pass("create")
              ELSE Fail(outcome) /\ UNCHANGED accounts
    /\ UNCHANGED << ledger, snapshot, instruction_data, instruction, token_account_data, rent >>

\* The write with the serializer's Result dropped instead of propagated:
\* let _ = board_info.serialize(..); Ok(())
WriteBoardIgnoringError ==
    /\ pc = "write"
    /\ trace' = Append(trace, "write")
    /\ LET board_info == [is_initialized |-> TRUE, owner |-> accounts[1].key,
                          token |-> instruction.token, url |-> instruction.url]
           w == SerializeInto(accounts[2].data, BorshSerialize(board_info))
       IN  /\ accounts' = [accounts EXCEPT ![2].data = w.buf]
           /\ result' = "Ok" /\ pc' = After("write")
    /\ UNCHANGED << ledger, snapshot, instruction_data, instruction,
                    token_account_data, rent, create_account_ix >>

\* board_info.serialize(&mut &mut board_account.data.borrow_mut()[..])?; Ok(())
WriteBoard ==
    /\ pc = "write"
    /\ trace' = Append(trace, "write")
    /\ LET board_info == [is_initialized |-> TRUE, owner |-> accounts[1].key,
                          token |-> instruction.token, url |-> instruction.url]
           w == SerializeInto(accounts[2].data, BorshSerialize(board_info))
       IN  /\ accounts' = [accounts EXCEPT ![2].data = w.buf]
           /\ IF w.ok THEN result' = "Ok" /\ pc' = After("write") ELSE Fail("BorshIoError")
    /\ UNCHANGED << ledger, snapshot, instruction_data, instruction,
                    token_account_data, rent, create_account_ix >>

\* The account a ledger name had in the invocation, if it was passed in.
Passed(name) == { i \in 1..Len(accounts) : accounts[i].key = KeyOfName(name) }

\* The host runtime is not part of the program's source; its three steps
\* follow the specification's description of it (section 5): account changes
\* of an invocation are stored only when the instruction returns Ok, and are
\* all discarded when it returns an error or aborts.

\* The instruction succeeded: the host stores the accounts it was given.
HostCommit ==
    /\ pc = "returned"
    /\ result = "Ok"
    /\ ledger' = [n \in DOMAIN ledger |->
                     IF Passed(n) = {} THEN ledger[n]
                     ELSE LET a == accounts[CHOOSE i \in Passed(n) : TRUE]
                          IN  [lamports |-> a.lamports, owner |-> a.owner, data |-> a.data]]
    /\ pc' = "done"
    /\ UNCHANGED << snapshot, accounts, instruction_data, instruction,
                    token_account_data, rent, create_account_ix, result, trace >>

\* The instruction failed: the host discards every change it made.
HostRollback ==
    /\ pc = "returned"
    /\ result # "Ok"
    /\ ledger' = snapshot
    /\ pc' = "done"
    /\ UNCHANGED << snapshot, accounts, instruction_data, instruction,
                    token_account_data, rent, create_account_ix, result, trace >>

\* The host drops the finished invocation's context; the ledger stays.
HostRelease ==
    /\ pc = "done"
    /\ pc' = "idle"
    /\ snapshot' = ledger
    /\ accounts' = << >>
    /\ instruction_data' = << >>
    /\ instruction' = None
    /\ token_account_data' = None
    /\ rent' = None
    /\ create_account_ix' = None
    /\ result' = "None"
    /\ trace' = << >>
    /\ UNCHANGED ledger

Next ==
    \/ Begin
    \/ Unpack
    \/ NextAccountInfos
    \/ CheckSigner
    \/ CheckOwnerProgram
    \/ UnpackHolding
    \/ CheckHolding
    \/ LoadRent
    \/ CreateAccount
    \/ WriteBoard
    \/ HostCommit
    \/ HostRollback
    \/ HostRelease

Spec == Init /\ [][Next]_vars

----------------------------------------------------------------------------
(* Vocabulary of the properties: the inputs of the current invocation,     *)
(* read from the payload and the account list as the caller supplied them. *)

Ran(stage) == \E i \in 1..Len(trace) : trace[i] = stage

Finished == pc = "done"

\* tag 0, a 32-byte asset id, and a UTF-8 remainder
WellFormedPayload ==
    /\ Len(instruction_data) >= 1 + PUBKEY_BYTES
    /\ instruction_data[1] = 0
    /\ ValidUtf8(SubSeq(instruction_data, PUBKEY_BYTES + 2, Len(instruction_data)))

PayloadToken == SubSeq(instruction_data, 2, PUBKEY_BYTES + 1)

PayloadUrl == SubSeq(instruction_data, PUBKEY_BYTES + 2, Len(instruction_data))

SixAccounts == Len(accounts) = NUM_ACCOUNTS

SenderSigned == accounts[1].is_signer

HoldingOwnedByDeclaredProgram == accounts[3].owner = accounts[4].key

Holding == UnpackTokenAccount(accounts[3].data)

HoldingDecodes == Holding.tag = "Ok"

\* holding.owner == sender, holding.mint == instruction.token, holding.amount > 0
HoldingAuthorizes ==
    /\ HoldingDecodes
    /\ Holding.owner = accounts[1].key
    /\ Holding.mint = PayloadToken
    /\ Holding.amount > 0

\* The rent account is the sysvar and its data decodes to a Rent.
RentAccountGenuine ==
    accounts[6].key = RentSysvarId /\ UnpackRent(accounts[6].data).tag = "Ok"

\* The lamports the call has to pay for the provisioned space.
LamportsNeeded == minimum_balance(UnpackRent(accounts[6].data), SIZE_OF_MessageBoardInfo)

\* The record a board account's bytes decode to.
BoardRecordOf(data) == BorshDeserialize(data)

\* The record the current call is asked to create.
RequestedRecord ==
    [is_initialized |-> TRUE, owner |-> accounts[1].key,
     token |-> PayloadToken, url |-> PayloadUrl]

\* The bytes of a record: flag, owner, token, 4-byte length, url.
RecordSize(url) == 1 + PUBKEY_BYTES + PUBKEY_BYTES + 4 + Len(url)

\* The account-creation primitive can succeed on the state the call began in.
PrimitiveCanSucceed ==
    /\ SixAccounts
    /\ RentAccountGenuine
    /\ accounts[2].is_signer
    /\ snapshot["board"].lamports = 0
    /\ snapshot["board"].data = << >>
    /\ \E s \in Senders :
          /\ KeyOfName(s) = accounts[1].key
          /\ ~LessL(ToLE(snapshot[s].lamports, 8), LamportsNeeded)

\* The board account held an initialized record when the call began.
BoardWasInitialized ==
    /\ snapshot["board"].data # << >>
    /\ BoardRecordOf(snapshot["board"].data).tag = "Ok"
    /\ BoardRecordOf(snapshot["board"].data).info.is_initialized

----------------------------------------------------------------------------
(* Properties.                                                             *)

\* C1: every well-formed CreateBoard payload (any url length) with a signer
\* sender, a holding account owned by the declared holding program that
\* authorizes the sender, all six accounts, the genuine rent account and an
\* account-creation primitive that succeeded ends in success, and the board
\* storage then decodes to BoardRecord{true, sender, token, url}.
C1_CreateBoardSucceeds ==
    ( /\ Finished
      /\ WellFormedPayload
      /\ SixAccounts
      /\ SenderSigned
      /\ HoldingOwnedByDeclaredProgram
      /\ HoldingAuthorizes
      /\ RentAccountGenuine
      /\ Ran("write") )
    => /\ result = "Ok"
       /\ BoardRecordOf(ledger["board"].data) = [tag |-> "Ok", info |-> RequestedRecord]

\* C2: an invocation that reaches the account-creation primitive or the record
\* write has a signer sender and a holding account that decodes with
\* owner == sender, mint == instruction.token and amount > 0; and whenever
\* the stored board record changes, the new record's owner is that signer and
\* its token is the mint of the holding that authorized the call.
C2_AuthorizationNecessary ==
    /\ (Ran("create") \/ Ran("write")) => (SenderSigned /\ HoldingAuthorizes)
    /\ ledger["board"] # snapshot["board"] =>
          /\ SenderSigned
          /\ HoldingAuthorizes
          /\ BoardRecordOf(ledger["board"].data).tag = "Ok"
          /\ BoardRecordOf(ledger["board"].data).info.is_initialized
          /\ BoardRecordOf(ledger["board"].data).info.owner = accounts[1].key
          /\ BoardRecordOf(ledger["board"].data).info.token = Holding.mint

\* C2 witness: a call was authorized, ran both stages and its record was stored.
C2_Witness ==
    /\ Finished
    /\ result = "Ok"
    /\ Ran("create")
    /\ Ran("write")
    /\ ledger["board"] # snapshot["board"]
    /\ Holding.amount > 0

\* C3: every payload shorter than 33 bytes makes decoding return
\* InvalidInstructionData as an ordinary error value, with no side effects.
C3_ShortPayloadIsMalformed ==
    (Finished /\ Len(instruction_data) < 1 + PUBKEY_BYTES)
    => /\ result = "InvalidInstructionData"
       /\ trace = << "unpack" >>
       /\ ledger = snapshot

\* C4 as stated: whenever sender.is_signer is false the outcome is
\* MissingRequiredSignature, whatever the payload and the other accounts are.
C4_NonSignerAlwaysMissingSignature ==
    (Finished /\ SixAccounts /\ ~SenderSigned) => result = "MissingRequiredSignature"

\* C4 amended: when the payload is well-formed and all six accounts are
\* supplied, a sender that did not sign gives MissingRequiredSignature,
\* whatever the holding account's owner program, its data and the board
\* storage are; nothing after the signer check runs.
C4_NonSignerAfterDecode ==
    (Finished /\ WellFormedPayload /\ SixAccounts /\ ~SenderSigned)
    => /\ result = "MissingRequiredSignature"
       /\ trace = << "unpack", "accounts", "signer" >>
       /\ ledger = snapshot

\* C4 witness: a non-signer call whose holding account is owned by another
\* program than the declared one, with undecodable data, on an initialized board.
C4_Witness ==
    /\ Finished
    /\ WellFormedPayload
    /\ SixAccounts
    /\ ~SenderSigned
    /\ ~HoldingOwnedByDeclaredProgram
    /\ ~HoldingDecodes
    /\ BoardWasInitialized
    /\ result = "MissingRequiredSignature"

\* C5: with a well-formed payload, six accounts, a signer sender and a holding
\* account owned by the declared program that decodes, any of
\* holding.owner != sender, holding.mint != token, holding.amount == 0 gives
\* InvalidAccountData; the primitive is not invoked and nothing is written.
C5_UnauthorizedOrEmptyHolding ==
    ( /\ Finished
      /\ WellFormedPayload
      /\ SixAccounts
      /\ SenderSigned
      /\ HoldingOwnedByDeclaredProgram
      /\ HoldingDecodes
      /\ \/ Holding.owner # accounts[1].key
         \/ Holding.mint # PayloadToken
         \/ Holding.amount = 0 )
    => /\ result = "InvalidAccountData"
       /\ ~Ran("rent") /\ ~Ran("create") /\ ~Ran("write")
       /\ create_account_ix = None
       /\ accounts[2].data = snapshot["board"].data
       /\ ledger = snapshot

\* C5 witness: the only violation is a mint other than the instruction's token.
C5_Witness ==
    /\ Finished
    /\ WellFormedPayload
    /\ SixAccounts
    /\ SenderSigned
    /\ HoldingOwnedByDeclaredProgram
    /\ HoldingDecodes
    /\ Holding.owner = accounts[1].key
    /\ Holding.mint # PayloadToken
    /\ Holding.amount > 0
    /\ result = "InvalidAccountData"

\* A board account's bytes are empty (never created) or hold a whole record:
\* they decode, and the decoded record's encoding is what the buffer starts with.
HoldsWholeRecord(data) ==
    \/ data = << >>
    \/ /\ BoardRecordOf(data).tag = "Ok"
       /\ BoardRecordOf(data).info.is_initialized
       /\ RecordSize(BoardRecordOf(data).info.url) <= Len(data)
       /\ SubSeq(data, 1, RecordSize(BoardRecordOf(data).info.url))
              = BorshSerialize(BoardRecordOf(data).info)

\* The input of the current invocation violates the check of a stage.
Violates(stage) ==
    CASE stage = "unpack"         -> ~WellFormedPayload
      [] stage = "accounts"       -> ~SixAccounts
      [] stage = "signer"         -> ~SenderSigned
      [] stage = "owner_program"  -> ~HoldingOwnedByDeclaredProgram
      [] stage = "holding_unpack" -> ~HoldingDecodes
      [] stage = "holding_check"  -> WellFormedPayload /\ HoldingDecodes /\ ~HoldingAuthorizes
      [] stage = "rent"           -> SixAccounts /\ ~RentAccountGenuine
      [] stage = "create"         -> SixAccounts /\ RentAccountGenuine /\ ~PrimitiveCanSucceed
      [] stage = "write"          -> /\ WellFormedPayload
                                     /\ RecordSize(PayloadUrl) > SIZE_OF_MessageBoardInfo

\* An error was raised inside the current invocation: it returned one, or its
\* input fails the check of one of the stages.
ErrorRaised ==
    \/ result # "Ok"
    \/ \E i \in 1..Len(StageOrder) : Violates(StageOrder[i])

ValidCreateBoardCall ==
    /\ WellFormedPayload
    /\ SixAccounts
    /\ SenderSigned
    /\ HoldingOwnedByDeclaredProgram
    /\ HoldingAuthorizes
    /\ RentAccountGenuine
    /\ accounts[2].is_signer
    /\ RecordSize(PayloadUrl) <= SIZE_OF_MessageBoardInfo
    /\ \E s \in Senders :
          /\ KeyOfName(s) = accounts[1].key
          /\ ~LessL(ToLE(snapshot[s].lamports, 8), LamportsNeeded)

\* C7 as stated: a valid CreateBoard on a board account that already holds an
\* initialized record succeeds and replaces the record with the call's values.
C7_SecondCreateOverwrites ==
    (Finished /\ BoardWasInitialized /\ ValidCreateBoardCall)
    => /\ result = "Ok"
       /\ BoardRecordOf(ledger["board"].data) = [tag |-> "Ok", info |-> RequestedRecord]

\* C7 amended: the core has no initialized-check, so a valid CreateBoard on an
\* already initialized board account passes every check of the core and
\* reaches the account-creation primitive; the primitive refuses the account
\* (already in use), the call fails, the write is not attempted and the first
\* record stays.
C7_SecondCreateReachesPrimitiveAndFails ==
    (Finished /\ BoardWasInitialized /\ ValidCreateBoardCall)
    => /\ trace = << "unpack", "accounts", "signer", "owner_program",
                     "holding_unpack", "holding_check", "rent", "create" >>
       /\ result = "AccountAlreadyInUse"
       /\ ledger = snapshot

\* C7 witness: a valid second call with another url than the stored record's.
C7_Witness ==
    /\ Finished
    /\ BoardWasInitialized
    /\ ValidCreateBoardCall
    /\ BoardRecordOf(snapshot["board"].data).info.url # PayloadUrl
    /\ Ran("create")
    /\ result = "AccountAlreadyInUse"

\* C8: no invocation succeeds on a holding account that is not owned by the
\* genuine holding-owning program.
C8_OnlyGenuineHoldingsAuthorize ==
    (Finished /\ result = "Ok") => accounts[3].owner = SplTokenId

\* The seven stages in the order claimed for them.
ClaimedOrder ==
    << "unpack", "signer", "owner_program", "holding_unpack", "holding_check",
       "create", "write" >>

InClaimedOrder(stage) == \E i \in 1..Len(ClaimedOrder) : ClaimedOrder[i] = stage

IsPrefix(p, q) == Len(p) <= Len(q) /\ SubSeq(q, 1, Len(p)) = p

\* The outcomes a stage ends the invocation with.
OutcomesOf(stage) ==
    CASE stage = "unpack"         -> {"InvalidInstructionData", "Panic"}
      [] stage = "accounts"       -> {"NotEnoughAccountKeys"}
      [] stage = "signer"         -> {"MissingRequiredSignature"}
      [] stage = "owner_program"  -> {"IncorrectProgramId"}
      [] stage = "holding_unpack" -> {"InvalidAccountData", "UninitializedAccount"}
      [] stage = "holding_check"  -> {"InvalidAccountData"}
      [] stage = "rent"           -> {"InvalidArgument"}
      [] stage = "create"         -> {"PrivilegeEscalation", "AccountAlreadyInUse",
                                      "InsufficientFunds"}
      [] stage = "write"          -> {"BorshIoError"}

\* C9: the stages run in the order decode, signer check, owner-program check,
\* holding decode, owner/mint/amount check, account creation, record write
\* (the account-list and rent reads of the code sit between them); every
\* stage that ran before the last one passed its check, a failed invocation
\* stopped at the earliest stage whose check its input violates and reports
\* an outcome of that stage, and the write ran only after the primitive
\* had succeeded.
C9_StagesInOrderFailFast ==
    /\ IsPrefix(SelectSeq(trace, InClaimedOrder), ClaimedOrder)
    /\ IsPrefix(trace, << "unpack", "accounts", "signer", "owner_program",
                          "holding_unpack", "holding_check", "rent", "create", "write" >>)
    /\ \A i \in 1..(Len(trace) - 1) : ~Violates(trace[i])
    /\ (pc \in {"returned", "done"} /\ result # "Ok")
          => /\ Violates(trace[Len(trace)])
             /\ result \in OutcomesOf(trace[Len(trace)])
    /\ (pc \in {"returned", "done"} /\ result = "Ok")
          => /\ trace[Len(trace)] = "write"
             /\ ~Violates("write")
    /\ (pc = "write" \/ Ran("write"))
          => /\ Ran("create")
             /\ PrimitiveCanSucceed
             /\ accounts[2].owner = ThisProgramId
             /\ Len(accounts[2].data) = create_account_ix.space

\* C9 witness: an input that violates the signer check, the owner-program
\* check, the holding decode and the rent read at once stopped at the signer
\* check.
C9_Witness ==
    /\ Finished
    /\ ~Violates("unpack")
    /\ ~Violates("accounts")
    /\ Violates("signer")
    /\ Violates("owner_program")
    /\ Violates("holding_unpack")
    /\ Violates("rent")
    /\ Violates("write")
    /\ trace[Len(trace)] = "signer"
    /\ result = "MissingRequiredSignature"

\* C10: the space passed to the account-creation primitive is the same
\* constant for every invocation, whatever the url's length, with lamports
\* the minimum balance of that space; the write fails with a serialization
\* error exactly when 1 + 32 + 32 + 4 + len(url) exceeds the provisioned
\* space, and succeeds when the record fits.
C10_FixedSpaceAndWriteOutcome ==
    /\ create_account_ix # None
          => /\ create_account_ix.space = SIZE_OF_MessageBoardInfo
             /\ create_account_ix.lamports = LamportsNeeded
    /\ Ran("write")
          => /\ Len(snapshot["board"].data) = 0
             /\ (result = "BorshIoError")
                    <=> (RecordSize(PayloadUrl) > create_account_ix.space)
             /\ (result = "Ok")
                    <=> (RecordSize(PayloadUrl) <= create_account_ix.space)
             /\ result = "Ok" =>
                    SubSeq(accounts[2].data, 1, RecordSize(PayloadUrl))
                        = BorshSerialize(RequestedRecord)

\* C10 witness: the url is one byte longer than fits and the write failed.
C10_Witness ==
    /\ Finished
    /\ Ran("write")
    /\ Len(PayloadUrl) = FitLen + 1
    /\ create_account_ix.space = SIZE_OF_MessageBoardInfo
    /\ result = "BorshIoError"

====
